---- MODULE Spec2Model ----
(***************************************************************************)
(* Call-status fetch of the Hik-Connect integration: the local ISAPI query *)
(* (get_call_status_isapi), the cloud query with its single 2009 retry     *)
(* (get_call_status_custom), the local-first fallback                      *)
(* (get_call_status_with_fallback) and the polling sensor that consumes    *)
(* it (CallStatusSensor.async_update).                                     *)
(*                                                                         *)
(* Text is a sequence of one-character strings, so that str.lower() and    *)
(* the substring test are computed.  A Python None / absent dict key is    *)
(* the empty sequence <<>>, a present value v is <<v>>.                    *)
(***************************************************************************)
EXTENDS Integers, Sequences, FiniteSets, TLC

VARIABLES
    local_ip,          \* CallStatusSensor._local_ip
    local_password,    \* CallStatusSensor._local_password
    session_id,        \* api.client._default_headers.get("sessionId") at the fetch
    pc,                \* where async_update is suspended: idle / isapi / cloud1 / cloud2
    requests,          \* network requests sent by the current (or last) fetch, in order
    isapi_resps,       \* local responses received by the current (or last) fetch
    cloud_resps,       \* cloud responses received by the current (or last) fetch
    isapi_result,      \* what get_call_status_isapi returned (<<>>: None or not called)
    open_sessions,     \* the HTTP client sessions open: httpx (local), aiohttp (cloud)
    outcome,           \* how the last fetch ended
    available,         \* CallStatusSensor._attr_available
    native_value,      \* CallStatusSensor._attr_native_value
    attrs,             \* CallStatusSensor._attr_extra_state_attributes
    last_error,        \* CallStatusSensor._last_error
    previous_status,   \* CallStatusSensor._previous_status
    logged,            \* log records async_update emitted in the last poll
    fired,             \* events async_update fired in the last poll
    elapsed,           \* seconds since asyncio.wait_for started the pending fetch
    in_flight,         \* fetches started and not yet ended
    prev_error,        \* the error the poll before the last one failed with, if it failed
    last_ok,           \* the status of the most recent successful poll
    rearmed            \* the offline error was logged, the next poll succeeded, and
                       \* since then at most one poll has ended, failing otherwise

vars == <<local_ip, local_password, session_id, pc, requests, isapi_resps,
          cloud_resps, isapi_result, open_sessions, outcome, available,
          native_value, attrs, last_error, previous_status, logged, fired,
          elapsed, in_flight, prev_error, last_ok, rearmed>>

---------------------------------------------------------------------------
(* Text *)

LowerChar(c) ==
    CASE c = "A" -> "a" [] c = "B" -> "b" [] c = "C" -> "c" [] c = "D" -> "d"
      [] c = "E" -> "e" [] c = "F" -> "f" [] c = "G" -> "g" [] c = "H" -> "h"
      [] c = "I" -> "i" [] c = "J" -> "j" [] c = "K" -> "k" [] c = "L" -> "l"
      [] c = "M" -> "m" [] c = "N" -> "n" [] c = "O" -> "o" [] c = "P" -> "p"
      [] c = "Q" -> "q" [] c = "R" -> "r" [] c = "S" -> "s" [] c = "T" -> "t"
      [] c = "U" -> "u" [] c = "V" -> "v" [] c = "W" -> "w" [] c = "X" -> "x"
      [] c = "Y" -> "y" [] c = "Z" -> "z" [] OTHER -> c

\* str.lower()
Lower(s) == [i \in 1..Len(s) |-> LowerChar(s[i])]

\* kw in text (substring test)
Contains(text, kw) ==
    \E i \in 1..(Len(text) - Len(kw) + 1) : SubSeq(text, i, i + Len(kw) - 1) = kw

Idle == <<"i", "d", "l", "e">>
Ringing == <<"r", "i", "n", "g", "i", "n", "g">>
Ongoing == <<"o", "n", "g", "o", "i", "n", "g">>
InProgress == <<"i", "n", " ", "p", "r", "o", "g", "r", "e", "s", "s">>
CallInProgress == <<"c", "a", "l", "l", " ">> \o InProgress
Unknown == <<"u", "n", "k", "n", "o", "w", "n">>
KeyCallStatus == <<"C", "a", "l", "l", "S", "t", "a", "t", "u", "s">>
KeyStatus == <<"s", "t", "a", "t", "u", "s">>

\* None where a status string is expected (no text is equal to it)
NoStatus == <<"<None>">>

---------------------------------------------------------------------------
(* JSON values of a local response body: [t, s, n, f] with t the type, s    *)
(* the text of a string, n the value of a number, f the members of an      *)
(* object ([k, v] pairs, unique keys) or the items of a list (k = <<>>).   *)

JNull == [t |-> "null", s |-> <<>>, n |-> 0, f |-> <<>>]
JNum(n) == [t |-> "num", s |-> <<>>, n |-> n, f |-> <<>>]
JStr(s) == [t |-> "str", s |-> s, n |-> 0, f |-> <<>>]
JObj(f) == [t |-> "obj", s |-> <<>>, n |-> 0, f |-> f]
JList(items) == [t |-> "list", s |-> <<>>, n |-> 0,
                 f |-> [i \in 1..Len(items) |-> [k |-> <<>>, v |-> items[i]]]]
KV(k, v) == [k |-> k, v |-> v]

Digit(n) == CASE n = 0 -> "0" [] n = 1 -> "1" [] n = 2 -> "2" [] n = 3 -> "3"
              [] n = 4 -> "4" [] n = 5 -> "5" [] n = 6 -> "6" [] n = 7 -> "7"
              [] n = 8 -> "8" [] OTHER -> "9"

RECURSIVE Dumps(_)
RECURSIVE DumpMembers(_, _, _)
\* the members i.. of an object or list, comma separated
DumpMembers(f, i, isObj) ==
    IF i > Len(f) THEN <<>>
    ELSE (IF i > 1 THEN <<",">> ELSE <<>>)
         \o (IF isObj THEN <<"\"">> \o f[i].k \o <<"\"", ":">> ELSE <<>>)
         \o Dumps(f[i].v)
         \o DumpMembers(f, i + 1, isObj)
\* the text of a JSON value (response.text of a body that json.loads accepts)
Dumps(v) ==
    CASE v.t = "null" -> <<"n", "u", "l", "l">>
      [] v.t = "num" -> <<Digit(v.n)>>
      [] v.t = "str" -> <<"\"">> \o v.s \o <<"\"">>
      [] v.t = "obj" -> <<"{">> \o DumpMembers(v.f, 1, TRUE) \o <<"}">>
      [] OTHER -> <<"[">> \o DumpMembers(v.f, 1, FALSE) \o <<"]">>

\* A local response body: either JSON (its text is the value's text) or raw text
JsonBody(v) == [isJson |-> TRUE, json |-> v, raw |-> <<>>]
RawBody(text) == [isJson |-> FALSE, json |-> JNull, raw |-> text]
Text(body) == IF body.isJson THEN Dumps(body.json) ELSE body.raw

\* Python `key in data`: "T", "F", or "TypeError" for a value that is no container
PyIn(key, data) ==
    CASE data.t = "obj" -> IF \E i \in 1..Len(data.f) : data.f[i].k = key THEN "T" ELSE "F"
      [] data.t = "list" -> IF \E i \in 1..Len(data.f) : data.f[i].v = JStr(key) THEN "T" ELSE "F"
      [] data.t = "str" -> IF Contains(data.s, key) THEN "T" ELSE "F"
      [] OTHER -> "TypeError"

\* data[key] of an object that has the key
Member(data, key) == data.f[CHOOSE i \in 1..Len(data.f) : data.f[i].k = key].v

---------------------------------------------------------------------------
(* Results and failures of a fetch *)

NoInfo == {}
Result(status, info) == [status |-> status, info |-> info]

\* how a call ended: kind "return" with a result, or the class of the exception
\* raised, with the code and message of a HikConnectApiError
Returned(res) ==
    [kind |-> "return", status |-> res.status, info |-> res.info, code |-> 0, message |-> ""]
Raised(kind, code, message) ==
    [kind |-> kind, status |-> NoStatus, info |-> NoInfo, code |-> code, message |-> message]
NoOutcome == Raised("none", 0, "")

ApiErrorKinds == {"HikConnectApiError", "DeviceOfflineError", "DeviceNetworkError"}

---------------------------------------------------------------------------
(* get_call_status_isapi *)

HttpOk == 200
HttpNotFound == 404

JsonReturn(status) == [r |-> "return", status |-> status]
JsonFall == [r |-> "fall", status |-> NoStatus]
JsonExc == [r |-> "exc", status |-> NoStatus]

\* LowerOf without the .lower()
LowerOf_NoLower(st) == IF st.t = "str" THEN JsonReturn(st.s) ELSE JsonExc

\* .lower() of a JSON value: only a str has it (AttributeError otherwise)
LowerOf(st) == IF st.t = "str" THEN JsonReturn(Lower(st.s)) ELSE JsonExc

\* lines 215-222, on the value json.loads returned
IsapiJson(data) ==
    LET inCS == PyIn(KeyCallStatus, data) IN
    IF inCS = "TypeError" THEN JsonExc
    ELSE IF inCS = "T" THEN
        IF data.t # "obj" THEN JsonExc
        ELSE LET cs == Member(data, KeyCallStatus) IN
             IF cs.t # "obj" THEN JsonExc
             ELSE IF PyIn(KeyStatus, cs) = "T"
                  THEN LowerOf(Member(cs, KeyStatus))
                  ELSE LowerOf(JStr(Unknown))
    ELSE IF PyIn(KeyStatus, data) = "T" THEN
        IF data.t # "obj" THEN JsonExc
        ELSE LowerOf(Member(data, KeyStatus))
    ELSE JsonFall

\* IsapiText matching the keywords in the text as received
IsapiText_CaseSensitive(text) ==
    IF Contains(text, Idle) THEN Idle
    ELSE IF Contains(text, Ringing) THEN Ringing
    ELSE IF Contains(text, Ongoing) \/ Contains(text, InProgress) THEN CallInProgress
    ELSE Unknown

\* lines 227-235, on response.text
IsapiText(text) ==
    LET text_lower == Lower(text) IN
    IF Contains(text_lower, Idle) THEN Idle
    ELSE IF Contains(text_lower, Ringing) THEN Ringing
    ELSE IF Contains(text_lower, Ongoing) \/ Contains(text_lower, InProgress)
         THEN CallInProgress
    ELSE Unknown

\* IsapiBody with line 235 returning None
IsapiBody_UnknownIsNone(body) ==
    LET j == IF body.isJson THEN IsapiJson(body.json) ELSE JsonFall IN
    CASE j.r = "return" -> <<Result(j.status, NoInfo)>>
      [] j.r = "exc" -> <<>>
      [] OTHER -> IF IsapiText(Text(body)) = Unknown THEN <<>>
                  ELSE <<Result(IsapiText(Text(body)), NoInfo)>>

\* lines 209-235: the body of a 200 response; <<>> is None (exception caught at 244)
IsapiBody(body) ==
    LET j == IF body.isJson THEN IsapiJson(body.json) ELSE JsonFall IN
    CASE j.r = "return" -> <<Result(j.status, NoInfo)>>
      [] j.r = "exc" -> <<>>
      [] OTHER -> <<Result(IsapiText(Text(body)), NoInfo)>>

\* get_call_status_isapi with every HTTP response parsed, whatever its status
get_call_status_isapi_AnyStatus(resp) ==
    IF resp.kind # "http" THEN <<>> ELSE IsapiBody(resp.body)

\* lines 204-246: what the call returns for a response (or a transport error)
get_call_status_isapi(resp) ==
    IF resp.kind # "http" THEN <<>>
    ELSE IF resp.status_code = HttpOk THEN IsapiBody(resp.body)
    ELSE IF resp.status_code = HttpNotFound THEN <<>>
    ELSE <<>>

---------------------------------------------------------------------------
(* _parse_call_status_response and get_call_status_custom *)

CodeOk == 200
CodeOffline == 2003
CodeNetwork == 2009

\* dict.get(key, default) of an optional member
Get(opt, default) == IF opt = <<>> THEN default ELSE opt[1]

\* CALL_STATUS_MAPPING with 3 mapped to the sensor's other option, "ongoing"
CALL_STATUS_MAPPING_Ongoing(code) ==
    CASE code = 1 -> Idle
      [] code = 2 -> Ringing
      [] code = 3 -> Ongoing
      [] OTHER -> Unknown

\* CALL_STATUS_MAPPING.get(code, "unknown")
CALL_STATUS_MAPPING(code) ==
    CASE code = 1 -> Idle
      [] code = 2 -> Ringing
      [] code = 3 -> CallInProgress
      [] OTHER -> Unknown

CallInfoKeys == {"buildingNo", "floorNo", "zoneNo", "unitNo", "devNo", "devType", "lockNum"}
CALL_INFO_MAPPING(in_key) ==
    CASE in_key = "buildingNo" -> "building_number"
      [] in_key = "floorNo" -> "floor_number"
      [] in_key = "zoneNo" -> "zone_number"
      [] in_key = "unitNo" -> "unit_number"
      [] in_key = "devNo" -> "device_number"
      [] in_key = "devType" -> "device_type"
      [] OTHER -> "lock_number"

\* MapInfo with every output key present, 0 where the input has no such key
MapInfo_Defaults(caller_info) ==
    { <<CALL_INFO_MAPPING(k),
        IF \E x \in caller_info : x[1] = k
        THEN (CHOOSE x \in caller_info : x[1] = k)[2] ELSE 0>> : k \in CallInfoKeys }

\* lines 123-127: a dict is the set of its <<key, value>> items
MapInfo(caller_info) ==
    { <<CALL_INFO_MAPPING(kv[1]), kv[2]>> : kv \in { x \in caller_info : x[1] \in CallInfoKeys } }

\* `not data_str` (line 111): None, "", or a dict without keys
DataFalsy(d) ==
    \/ d.t = "absent"
    \/ d.t = "str" /\ d.enc = "empty"
    \/ d.t = "obj" /\ d.p.callStatus = <<>> /\ d.p.callerInfo = <<>> /\ ~d.p.other

\* ParsePayload with a missing callStatus read as 1
ParsePayload_DefaultIdle(p) ==
    Returned(Result(CALL_STATUS_MAPPING(Get(p.callStatus, 1)),
                    MapInfo(Get(p.callerInfo, {}))))

\* lines 116-132, on the decoded payload
ParsePayload(p) ==
    Returned(Result(CALL_STATUS_MAPPING(Get(p.callStatus, 0)),
                    MapInfo(Get(p.callerInfo, {}))))

\* lines 108-132
parse_call_status_response(res_json) ==
    LET d == res_json.data IN
    IF DataFalsy(d) THEN Raised("HikConnectApiError", 0, "No data in response")
    ELSE IF d.t = "str" /\ d.enc = "malformed" THEN Raised("JSONDecodeError", 0, "")
    ELSE IF d.t = "str" /\ d.enc = "scalar" THEN Raised("AttributeError", 0, "")
    ELSE ParsePayload(d.p)

MetaCode(res_json) == Get(res_json.meta.code, 0)
MetaMessage(res_json) == Get(res_json.meta.message, "Unknown error")

\* AfterFirst with 2003 retried like 2009
AfterFirst_OfflineRetried(res_json) ==
    IF MetaCode(res_json) \in {CodeOffline, CodeNetwork}
    THEN Raised("retry", MetaCode(res_json), MetaMessage(res_json))
    ELSE IF MetaCode(res_json) # CodeOk
    THEN Raised("HikConnectApiError", MetaCode(res_json), MetaMessage(res_json))
    ELSE parse_call_status_response(res_json)

\* lines 157-165 on the first response: "retry", or how the call ends
AfterFirst(res_json) ==
    LET code == MetaCode(res_json)
        message == MetaMessage(res_json) IN
    IF code = CodeOffline THEN Raised("DeviceOfflineError", code, message)
    ELSE IF code = CodeNetwork THEN Raised("retry", code, message)
    ELSE IF code # CodeOk THEN Raised("HikConnectApiError", code, message)
    ELSE parse_call_status_response(res_json)

\* AfterRetry without line 177: a second 2009 is an ordinary error
AfterRetry_NoNetworkCheck(res_json) ==
    IF MetaCode(res_json) # CodeOk
    THEN Raised("HikConnectApiError", MetaCode(res_json), MetaMessage(res_json))
    ELSE parse_call_status_response(res_json)

\* AfterRetry with the check of line 162 repeated for the retry's response
AfterRetry_OfflineTyped(res_json) ==
    IF MetaCode(res_json) = CodeOffline
    THEN Raised("DeviceOfflineError", MetaCode(res_json), MetaMessage(res_json))
    ELSE IF MetaCode(res_json) = CodeNetwork
    THEN Raised("DeviceNetworkError", MetaCode(res_json), MetaMessage(res_json))
    ELSE IF MetaCode(res_json) # CodeOk
    THEN Raised("HikConnectApiError", MetaCode(res_json), MetaMessage(res_json))
    ELSE parse_call_status_response(res_json)

\* lines 173-183 on the response to the retry
AfterRetry(res_json) ==
    LET code == MetaCode(res_json)
        message == MetaMessage(res_json) IN
    IF code = CodeNetwork THEN Raised("DeviceNetworkError", code, message)
    ELSE IF code # CodeOk THEN Raised("HikConnectApiError", code, message)
    ELSE parse_call_status_response(res_json)

\* _get_headers: the names of the headers sent
get_headers(include_extra) ==
    {"clientType", "lang", "featureCode", "sessionId", "Content-Type", "Accept"}
    \cup (IF include_extra THEN {"User-Agent", "X-Timestamp"} ELSE {})

BASE_URL == "https://api.hik-connect.com"
DeviceSerial == "Q01234567"

\* line 147
StatusUrl == <<BASE_URL, "/v3/devconfig/v1/call/", DeviceSerial, "/status">>
\* line 200
IsapiUrl(ip) == <<"http://", ip, "/ISAPI/VideoIntercom/callStatus">>

\* the GET of lines 152 and 170
CloudRequest(sid, include_extra) ==
    [to |-> "cloud", url |-> StatusUrl, headers |-> get_headers(include_extra),
     sid |-> sid, auth |-> ""]
\* the GET of line 206, with digest authentication (line 202)
IsapiRequest(ip, password) ==
    [to |-> "isapi", url |-> IsapiUrl(ip), headers |-> {}, sid |-> "", auth |-> password]

---------------------------------------------------------------------------
(* CallStatusSensor.async_update: what it does with the end of the fetch *)

\* _attr_options (line 49)
SensorOptions == {Idle, Ringing, Ongoing, CallInProgress}

NoError == [tag |-> "none", code |-> 0, message |-> ""]
Error2009 == [tag |-> "2009", code |-> 0, message |-> ""]
\* str(e) of a HikConnectApiError: "API error {code}: {message}"
ErrStr(e) == [tag |-> "str", code |-> e.code, message |-> e.message]

Log(level, what) == [level |-> level, what |-> what]
Event(name, status, previous) == [name |-> name, status |-> status, previous_status |-> previous]

\* OnResult without line 99: the marker outlives the success
OnResult_KeepsMarker(out) ==
    /\ IF out.status # previous_status
       THEN /\ fired' = <<Event("call_status_changed", out.status, previous_status)>>
                        \o (IF out.status = Ringing
                            THEN <<Event("doorbell_ringing", out.status, previous_status)>>
                            ELSE <<>>)
            /\ previous_status' = out.status
       ELSE /\ fired' = <<>>
            /\ previous_status' = previous_status
    /\ native_value' = out.status
    /\ attrs' = out.info
    /\ available' = TRUE
    /\ last_error' = last_error
    /\ logged' = <<>>

\* lines 78-100
OnResult(out) ==
    LET new_status == out.status IN
    /\ IF new_status # previous_status
       THEN /\ fired' = <<Event("call_status_changed", new_status, previous_status)>>
                        \o (IF new_status = Ringing
                            THEN <<Event("doorbell_ringing", new_status, previous_status)>>
                            ELSE <<>>)
            /\ previous_status' = new_status
       ELSE /\ fired' = <<>>
            /\ previous_status' = previous_status
    /\ native_value' = new_status
    /\ attrs' = out.info
    /\ available' = TRUE
    /\ last_error' = NoError
    /\ logged' = <<>>

\* OnApiError forgetting the remembered status
OnApiError_ForgetsStatus(marker, level, what) ==
    /\ IF last_error # marker
       THEN logged' = <<Log(level, what)>> /\ last_error' = marker
       ELSE logged' = <<>> /\ last_error' = last_error
    /\ available' = FALSE
    /\ fired' = <<>>
    /\ previous_status' = NoStatus
    /\ UNCHANGED <<native_value, attrs>>

\* OnApiError without the test of the marker: every failure is logged
OnApiError_AlwaysLogs(marker, level, what) ==
    /\ logged' = <<Log(level, what)>>
    /\ last_error' = marker
    /\ available' = FALSE
    /\ fired' = <<>>
    /\ UNCHANGED <<native_value, attrs, previous_status>>

\* lines 102-130: the typed errors, logged once per marker
OnApiError(marker, level, what) ==
    /\ IF last_error # marker
       THEN logged' = <<Log(level, what)>> /\ last_error' = marker
       ELSE logged' = <<>> /\ last_error' = last_error
    /\ available' = FALSE
    /\ fired' = <<>>
    /\ UNCHANGED <<native_value, attrs, previous_status>>

\* OnOtherError resetting what the sensor shows
OnOtherError_ClearsValue(level, what) ==
    /\ logged' = <<Log(level, what)>>
    /\ available' = FALSE
    /\ fired' = <<>>
    /\ native_value' = NoStatus
    /\ attrs' = {}
    /\ UNCHANGED <<previous_status, last_error>>

\* lines 132-147: timeout, transport error, anything else
OnOtherError(level, what) ==
    /\ logged' = <<Log(level, what)>>
    /\ available' = FALSE
    /\ fired' = <<>>
    /\ UNCHANGED <<native_value, attrs, previous_status, last_error>>

\* the offline error of the first cloud response, with the message the
\* cloud gives
OfflineError == Raised("DeviceOfflineError", CodeOffline, "Operation failed")

\* rearmed, when the poll ends with `out`.  A success is never the end of a
\* poll that sent no request, so the poll before it is the one prev_error and
\* logged still tell of.
Rearmed(out) ==
    IF out.kind = "return" THEN prev_error = OfflineError /\ logged # <<>>
    ELSE IF out = OfflineError THEN FALSE
    ELSE /\ rearmed
         /\ IF pc = "idle" THEN outcome.kind = "return" ELSE prev_error = NoOutcome

\* Finish with the network session left open when the fetch fails
Finish_LeaksOnError(out) ==
    /\ pc' = "idle"
    /\ outcome' = out
    /\ open_sessions' = (IF out.kind = "return" THEN {} ELSE open_sessions)
    /\ last_ok' = (IF out.kind = "return" THEN out.status ELSE last_ok)
    /\ rearmed' = Rearmed(out)
    /\ CASE out.kind = "return" -> OnResult(out)
         [] out.kind = "DeviceNetworkError" -> OnApiError(Error2009, "warning", "unavailable")
         [] out.kind = "DeviceOfflineError" -> OnApiError(ErrStr(out), "debug", "offline")
         [] out.kind = "HikConnectApiError" -> OnApiError(ErrStr(out), "warning", "api error")
         [] out.kind = "TimeoutError" -> OnOtherError("debug", "timeout")
         [] out.kind = "ClientError" -> OnOtherError("debug", "network error")
         [] OTHER -> OnOtherError("warning", "unexpected error")

\* Finish without the last handler (lines 140-147): any other exception leaves
\* async_update, and the sensor is as it was
Finish_Unhandled(out) ==
    /\ outcome' = out
    /\ open_sessions' = {}
    /\ last_ok' = (IF out.kind = "return" THEN out.status ELSE last_ok)
    /\ rearmed' = Rearmed(out)
    /\ CASE out.kind = "return" -> pc' = "idle" /\ OnResult(out)
         [] out.kind = "DeviceNetworkError" ->
                pc' = "idle" /\ OnApiError(Error2009, "warning", "unavailable")
         [] out.kind = "DeviceOfflineError" ->
                pc' = "idle" /\ OnApiError(ErrStr(out), "debug", "offline")
         [] out.kind = "HikConnectApiError" ->
                pc' = "idle" /\ OnApiError(ErrStr(out), "warning", "api error")
         [] out.kind = "TimeoutError" -> pc' = "idle" /\ OnOtherError("debug", "timeout")
         [] out.kind = "ClientError" -> pc' = "idle" /\ OnOtherError("debug", "network error")
         [] OTHER -> /\ pc' = "raised"
                     /\ UNCHANGED <<available, native_value, attrs, last_error,
                                    previous_status, logged, fired>>

\* lines 68-147: the fetch has ended with `out`
Finish(out) ==
    /\ pc' = "idle"
    /\ outcome' = out
    /\ open_sessions' = {}
    /\ last_ok' = (IF out.kind = "return" THEN out.status ELSE last_ok)
    /\ rearmed' = Rearmed(out)
    /\ CASE out.kind = "return" -> OnResult(out)
         [] out.kind = "DeviceNetworkError" -> OnApiError(Error2009, "warning", "unavailable")
         [] out.kind = "DeviceOfflineError" -> OnApiError(ErrStr(out), "debug", "offline")
         [] out.kind = "HikConnectApiError" -> OnApiError(ErrStr(out), "warning", "api error")
         [] out.kind = "TimeoutError" -> OnOtherError("debug", "timeout")
         [] out.kind = "ClientError" -> OnOtherError("debug", "network error")
         [] OTHER -> OnOtherError("warning", "unexpected error")

\* the fetch goes on: async_update stays suspended at the next await
Await(where) ==
    /\ pc' = where
    /\ outcome' = NoOutcome
    /\ UNCHANGED <<available, native_value, attrs, last_error, previous_status,
                   logged, fired, last_ok, rearmed>>

---------------------------------------------------------------------------
(* get_call_status_with_fallback *)

\* HasSession as `session_id is not None`
HasSession_IsNotNone(sid) == sid # <<>>

\* `not session_id` (line 304) is false
HasSession(sid) == sid # <<>> /\ sid[1] # ""

\* lines 300-313 up to the first await: reqs are the requests sent so far
CloudPath(sid, reqs) ==
    IF ~HasSession(sid)
    THEN /\ requests' = reqs
         /\ Finish(Raised("HikConnectApiError", 0, "No session ID available - not logged in"))
    ELSE /\ requests' = Append(reqs, CloudRequest(sid[1], FALSE))
         /\ open_sessions' = {"aiohttp"}
         /\ Await("cloud1")

\* LocalConfigured testing the address only
LocalConfigured_IpOnly(ip, password) == ip # ""

\* line 292
LocalConfigured(ip, password) == ip # "" /\ password # ""

---------------------------------------------------------------------------
(* The inputs: what the device and the cloud may answer *)

MaxCallStatus == 4

JsonBodies ==
    { JsonBody(v) : v \in {
        JObj(<<KV(KeyCallStatus, JObj(<<KV(KeyStatus, JStr(<<"I", "d", "l", "e">>))>>))>>),
        JObj(<<KV(KeyCallStatus, JObj(<<KV(KeyStatus, JStr(<<"o", "n", "G", "o", "i", "n", "g">>))>>))>>),
        JObj(<<KV(KeyCallStatus, JObj(<<>>))>>),
        JObj(<<KV(KeyCallStatus, JStr(Idle))>>),
        JObj(<<KV(KeyCallStatus, JObj(<<KV(KeyStatus, JNum(1))>>))>>),
        JObj(<<KV(KeyCallStatus, JObj(<<>>)), KV(KeyStatus, JStr(Idle))>>),
        JObj(<<KV(KeyStatus, JStr(<<"R", "I", "N", "G", "I", "N", "G">>))>>),
        JObj(<<KV(KeyStatus, JStr(<<"B", "u", "s", "y">>))>>),
        JObj(<<KV(KeyStatus, JStr(<<>>))>>),
        JObj(<<KV(KeyStatus, JNum(2))>>),
        JObj(<<KV(<<"s", "t", "a", "t", "e">>, JStr(<<"R", "i", "n", "g", "i", "n", "g">>))>>),
        JObj(<<>>),
        JList(<<JStr(Idle)>>),
        JNum(5),
        JStr(KeyStatus) } }

RawBodies ==
    { RawBody(t) : t \in {
        <<"<", "R", "I", "N", "G", "I", "N", "G", "/", ">">>,
        <<"<", "I", "d", "l", "e", "/", ">">>,
        <<"<", "o", "n", "G", "o", "i", "n", "g", "/", ">">>,
        <<"I", "n", " ", "P", "r", "o", "g", "r", "e", "s", "s">>,
        <<"<", "b", "u", "s", "y", "/", ">">>,
        <<>>,
        <<"r", "i", "n", "g", "i", "n", "g", ",", "I", "D", "L", "E">> } }

HttpResponse(code, body) == [kind |-> "http", status_code |-> code, body |-> body]
TransportError == [kind |-> "error", status_code |-> 0, body |-> RawBody(<<>>)]

IsapiResponses ==
    { HttpResponse(HttpOk, b) : b \in JsonBodies \cup RawBodies }
    \cup { HttpResponse(c, RawBody(<<>>)) : c \in {HttpNotFound, 401, 500} }
    \cup { TransportError }

Payload(callStatus, callerInfo, other) ==
    [callStatus |-> callStatus, callerInfo |-> callerInfo, other |-> other]
NoPayload == Payload(<<>>, <<>>, FALSE)

CallerInfos ==
    { {},
      { <<"buildingNo", 1>>, <<"lockNum", 2>> },
      { <<"floorNo", 3>>, <<"nickname", 7>> },
      { <<"buildingNo", 1>>, <<"floorNo", 2>>, <<"zoneNo", 3>>, <<"unitNo", 4>>,
        <<"devNo", 5>>, <<"devType", 6>>, <<"lockNum", 7>> } }

Payloads ==
    { Payload(cs, <<>>, o) : cs \in {<<>>} \cup { <<n>> : n \in 0..MaxCallStatus }, o \in {TRUE} }
    \cup { Payload(<<2>>, <<ci>>, FALSE) : ci \in CallerInfos }
    \cup { NoPayload }

Data(t, enc, p) == [t |-> t, enc |-> enc, p |-> p]

Datas ==
    { Data("absent", "", NoPayload), Data("str", "empty", NoPayload),
      Data("str", "malformed", NoPayload), Data("str", "scalar", NoPayload) }
    \cup { Data("str", "object", p) : p \in Payloads }
    \cup { Data("obj", "", p) : p \in { NoPayload, Payload(<<3>>, <<>>, FALSE),
                                         Payload(<<>>, <<>>, TRUE) } }

Messages == {"Operation failed"}

Meta(code, message) == [code |-> code, message |-> message]
Json(meta, data) == [kind |-> "json", meta |-> meta, data |-> data]
ClientError == [kind |-> "ClientError", meta |-> Meta(<<>>, <<>>), data |-> Data("absent", "", NoPayload)]

CloudResponses ==
    { Json(Meta(c, m), Data("absent", "", NoPayload)) :
        c \in {<<>>, <<CodeOffline>>, <<CodeNetwork>>, <<500>>},
        m \in {<<>>} \cup { <<x>> : x \in Messages } }
    \cup { Json(Meta(<<CodeOk>>, <<>>), d) : d \in Datas }
    \cup { ClientError }

SessionIds == { <<>>, <<"">>, <<"a1b2c3">> }

---------------------------------------------------------------------------
(* The steps of a poll *)

config == <<local_ip, local_password>>

\* SCAN_INTERVAL, in seconds, and SCAN_INTERVAL_TIMEOUT, in milliseconds
SCAN_INTERVAL == 5
SCAN_INTERVAL_TIMEOUT == 4500

\* timedelta.seconds: the whole seconds of a duration
TimedeltaSeconds(ms) == ms \div 1000

\* WaitTimeout as long as the polling interval
WaitTimeout_WholeInterval == SCAN_INTERVAL

\* the timeout asyncio.wait_for is given (line 76)
WaitTimeout == TimedeltaSeconds(SCAN_INTERVAL_TIMEOUT)

\* the fetch that was pending has ended, or is still pending
Pending ==
    /\ elapsed' = (IF pc' = "idle" THEN 0 ELSE elapsed)
    /\ in_flight' = (IF pc' = "idle" THEN in_flight - 1 ELSE in_flight)
    /\ prev_error' = prev_error

Init ==
    /\ local_ip \in {"", "192.168.1.50"}
    /\ local_password \in {"", "secret"}
    /\ session_id = <<>>
    /\ pc = "idle"
    /\ requests = <<>>
    /\ isapi_resps = <<>>
    /\ cloud_resps = <<>>
    /\ isapi_result = <<>>
    /\ open_sessions = {}
    /\ outcome = NoOutcome
    /\ available = FALSE
    /\ native_value = NoStatus
    /\ attrs = {}
    /\ last_error = NoError
    /\ previous_status = NoStatus
    /\ logged = <<>>
    /\ fired = <<>>
    /\ elapsed = 0
    /\ in_flight = 0
    /\ prev_error = NoOutcome
    /\ last_ok = NoStatus
    /\ rearmed = FALSE

\* the scheduler calls async_update, every SCAN_INTERVAL; the fetch runs to its
\* first await (lines 69, 291-313)
Poll(sid) ==
    /\ pc = "idle" \/ elapsed >= SCAN_INTERVAL
    /\ session_id' = sid
    /\ isapi_resps' = <<>>
    /\ cloud_resps' = <<>>
    /\ isapi_result' = <<>>
    /\ IF LocalConfigured(local_ip, local_password)
       THEN /\ requests' = <<IsapiRequest(local_ip, local_password)>>
            /\ open_sessions' = {"httpx"}
            /\ Await("isapi")
       ELSE CloudPath(sid, <<>>)
    /\ elapsed' = 0
    /\ in_flight' = (IF pc' = "idle" THEN in_flight ELSE in_flight + 1)
    /\ prev_error' = (IF outcome.kind = "return" THEN NoOutcome ELSE outcome)
    /\ UNCHANGED config

\* the local request completes (lines 206-246), then lines 294-313
IsapiResponse(resp) ==
    /\ pc = "isapi"
    /\ isapi_resps' = <<resp>>
    /\ LET result == get_call_status_isapi(resp) IN
       /\ isapi_result' = result
       /\ IF result # <<>>
          THEN requests' = requests /\ Finish(Returned(result[1]))
          ELSE CloudPath(session_id, requests)
    /\ Pending
    /\ UNCHANGED <<config, session_id, cloud_resps>>

\* the first cloud request completes (lines 152-183)
CloudResponse(resp) ==
    /\ pc = "cloud1"
    /\ cloud_resps' = <<resp>>
    /\ IF resp.kind = "ClientError"
       THEN requests' = requests /\ Finish(Raised("ClientError", 0, ""))
       ELSE LET out == AfterFirst(resp) IN
            IF out.kind = "retry"
            THEN /\ requests' = Append(requests, CloudRequest(session_id[1], TRUE))
                 /\ open_sessions' = open_sessions
                 /\ Await("cloud2")
            ELSE requests' = requests /\ Finish(out)
    /\ Pending
    /\ UNCHANGED <<config, session_id, isapi_resps, isapi_result>>

\* RetryResponse asking again after every 2009
RetryResponse_Loop(resp) ==
    /\ pc = "cloud2"
    /\ cloud_resps' = Append(cloud_resps, resp)
    /\ IF resp.kind = "ClientError"
       THEN requests' = requests /\ Finish(Raised("ClientError", 0, ""))
       ELSE IF MetaCode(resp) = CodeNetwork
       THEN /\ requests' = Append(requests, CloudRequest(session_id[1], TRUE))
            /\ open_sessions' = open_sessions
            /\ Await("cloud2")
       ELSE requests' = requests /\ Finish(AfterRetry(resp))
    /\ Pending
    /\ UNCHANGED <<config, session_id, isapi_resps, isapi_result>>

\* the retry completes (lines 170-183)
RetryResponse(resp) ==
    /\ pc = "cloud2"
    /\ cloud_resps' = Append(cloud_resps, resp)
    /\ IF resp.kind = "ClientError"
       THEN Finish(Raised("ClientError", 0, ""))
       ELSE Finish(AfterRetry(resp))
    /\ Pending
    /\ UNCHANGED <<config, session_id, isapi_resps, isapi_result, requests>>

\* asyncio.wait_for cancels the fetch at its await when the timeout has passed
\* (lines 69-77, 132-134)
Timeout ==
    /\ pc \in {"isapi", "cloud1", "cloud2"}
    /\ elapsed >= WaitTimeout
    /\ Finish(Raised("TimeoutError", 0, ""))
    /\ Pending
    /\ UNCHANGED <<config, session_id, isapi_resps, isapi_result, cloud_resps, requests>>

\* the earlier of the timeout and the next scheduled poll
Deadline == IF WaitTimeout < SCAN_INTERVAL THEN WaitTimeout ELSE SCAN_INTERVAL

\* time passes while the fetch is pending, up to the next thing the clock
\* triggers: the timeout or the next scheduled poll
Tick ==
    /\ pc \in {"isapi", "cloud1", "cloud2"}
    /\ elapsed < Deadline
    /\ elapsed' = Deadline
    /\ UNCHANGED <<config, session_id, pc, requests, isapi_resps, cloud_resps,
                   isapi_result, open_sessions, outcome, available, native_value,
                   attrs, last_error, previous_status, logged, fired, in_flight,
                   prev_error, last_ok, rearmed>>

Next ==
    \/ \E sid \in SessionIds : Poll(sid)
    \/ \E resp \in IsapiResponses : IsapiResponse(resp)
    \/ \E resp \in CloudResponses : CloudResponse(resp)
    \/ \E resp \in CloudResponses : RetryResponse(resp)
    \/ Timeout
    \/ Tick

Spec == Init /\ [][Next]_vars

---------------------------------------------------------------------------
(* Observations used by the properties *)

IsCloud(req) == req.to = "cloud"
IsLocal(req) == req.to = "isapi"
CloudReqs == SelectSeq(requests, IsCloud)
LocalReqs == SelectSeq(requests, IsLocal)

\* a fetch has been started by the current or the last poll
Called == pc # "idle" \/ outcome # NoOutcome
\* the last fetch has ended
Done == pc = "idle" /\ outcome # NoOutcome

FourStatuses == {Idle, Ringing, CallInProgress, Unknown}
NotLoggedIn == Raised("HikConnectApiError", 0, "No session ID available - not logged in")

BothSet == local_ip # "" /\ local_password # ""
NoSession == session_id = <<>> \/ session_id = <<"">>

\* the i-th cloud response of the fetch is a response envelope with this code
CloudCode(i, code) ==
    /\ Len(cloud_resps) >= i
    /\ cloud_resps[i].kind = "json"
    /\ (IF cloud_resps[i].meta.code = <<>> THEN 0 ELSE cloud_resps[i].meta.code[1]) = code

---------------------------------------------------------------------------
(* C1: a first cloud response with code 2009 is followed by exactly one    *)
(* more request, to the same URL, and there are never more than two cloud  *)
(* requests; a retry response with 2009 ends the fetch with                *)
(* DeviceNetworkError, one with 200 ends it with what                      *)
(* _parse_call_status_response makes of the retry response.                *)
C1_RetryOnce ==
    /\ Len(CloudReqs) <= 2
    /\ CloudCode(1, CodeNetwork) <=> Len(CloudReqs) = 2
    /\ CloudCode(1, CodeNetwork) =>
          /\ CloudReqs[2].url = CloudReqs[1].url
          /\ CloudReqs[2].headers = CloudReqs[1].headers \cup {"User-Agent", "X-Timestamp"}
          /\ CloudCode(2, CodeNetwork) =>
                pc = "idle" /\ outcome.kind = "DeviceNetworkError"
          /\ CloudCode(2, CodeOk) =>
                /\ pc = "idle"
                /\ outcome = parse_call_status_response(cloud_resps[2])
                /\ (cloud_resps[2].data.t = "str" /\ cloud_resps[2].data.enc = "object")
                      => /\ outcome.kind = "return"
                         /\ outcome.status \in FourStatuses

C1_Witness ==
    /\ CloudCode(1, CodeNetwork)
    /\ CloudCode(2, CodeOk)
    /\ outcome.kind = "return"
    /\ outcome.status = Ringing
    /\ Len(CloudReqs) = 2

C1_WitnessNetworkError ==
    CloudCode(1, CodeNetwork) /\ CloudCode(2, CodeNetwork) /\ outcome.kind = "DeviceNetworkError"

(* C2: a first cloud response with code 2003 ends the fetch with           *)
(* DeviceOfflineError, and the fetch has sent one cloud request only.      *)
C2_OfflineNoRetry ==
    CloudCode(1, CodeOffline) =>
        /\ pc = "idle"
        /\ outcome.kind = "DeviceOfflineError"
        /\ outcome.code = CodeOffline
        /\ Len(CloudReqs) = 1
        /\ Len(cloud_resps) = 1

C2_Witness ==
    CloudCode(1, CodeOffline) /\ Done /\ outcome.kind = "DeviceOfflineError"

(* C3 as stated: without a session identifier the fetch fails with the     *)
(* "not logged in" error and has made no network call, whatever the local  *)
(* address and credential are.                                             *)
C3_AsStated ==
    (Called /\ NoSession) => (requests = <<>> /\ pc = "idle" /\ outcome = NotLoggedIn)

(* C3 amended: without a session identifier no cloud request is ever made; *)
(* the fetch fails with the "not logged in" error (code 0) as soon as it   *)
(* reaches the cloud step: at once, with no network call at all, when the  *)
(* local address or credential is empty, and after the one local request   *)
(* when that yielded no result.  A local result is returned as usual.      *)
C3_NotLoggedIn ==
    (Called /\ NoSession) =>
        /\ Len(CloudReqs) = 0
        /\ ~BothSet => (requests = <<>> /\ pc = "idle" /\ outcome = NotLoggedIn)
        /\ (BothSet /\ isapi_resps # <<>> /\ isapi_result = <<>>) =>
              (Len(requests) = 1 /\ pc = "idle" /\ outcome = NotLoggedIn)
        /\ (BothSet /\ isapi_result # <<>>) => outcome.kind = "return"

C3_Witness ==
    /\ NoSession /\ BothSet /\ Done
    /\ isapi_resps # <<>> /\ isapi_result = <<>>
    /\ outcome = NotLoggedIn

---------------------------------------------------------------------------
(* The local response of the fetch, as the properties describe it *)

\* the fetch has received a local response with HTTP 200
Local200 == isapi_resps # <<>> /\ isapi_resps[1].kind = "http" /\ isapi_resps[1].status_code = 200
LocalBody == isapi_resps[1].body

HasKey(obj, key) == \E i \in 1..Len(obj.f) : obj.f[i].k = key
ValueOf(obj, key) == obj.f[CHOOSE i \in 1..Len(obj.f) : obj.f[i].k = key].v

\* a JSON object with a status field nested under CallStatus
NestedStatus(body) ==
    /\ body.isJson /\ body.json.t = "obj" /\ HasKey(body.json, KeyCallStatus)
    /\ ValueOf(body.json, KeyCallStatus).t = "obj"
    /\ HasKey(ValueOf(body.json, KeyCallStatus), KeyStatus)
\* a JSON object with a flat status field
FlatStatus(body) ==
    body.isJson /\ body.json.t = "obj" /\ HasKey(body.json, KeyStatus)
\* a JSON object with a CallStatus member or a status member
RecognizedField(body) ==
    body.isJson /\ body.json.t = "obj"
    /\ (HasKey(body.json, KeyCallStatus) \/ HasKey(body.json, KeyStatus))

Keywords == {Idle, Ringing, Ongoing, InProgress}
HasKeyword(body, kw) ==
    \E i \in 1..Len(Text(body)) :
        /\ i + Len(kw) - 1 <= Len(Text(body))
        /\ \A j \in 1..Len(kw) : LowerChar(Text(body)[i + j - 1]) = kw[j]

\* neither a recognized JSON status field nor a status keyword in the text
Unparseable(body) == ~RecognizedField(body) /\ \A kw \in Keywords : ~HasKeyword(body, kw)

\* a JSON value that is no container, or a string or array in which
\* "CallStatus" or "status" is found: lines 217-222 raise on it
NotADict(body) ==
    /\ body.isJson
    /\ \/ body.json.t \in {"num", "null"}
       \/ /\ body.json.t \in {"str", "list"}
          /\ \E key \in {KeyCallStatus, KeyStatus} : PyIn(key, body.json) = "T"

\* the cloud step has been entered: its request sent, or refused for want of a session
CloudEntered == Len(CloudReqs) >= 1 \/ outcome = NotLoggedIn

C5_AsStated ==
    (Done /\ outcome.kind = "return") => outcome.status \in FourStatuses

\* the string the code reads from a JSON body: CallStatus.status when there is a
\* CallStatus member (unknown when it has no status), else the flat status
FieldRead(body) ==
    IF HasKey(body.json, KeyCallStatus)
    THEN IF HasKey(ValueOf(body.json, KeyCallStatus), KeyStatus)
         THEN ValueOf(ValueOf(body.json, KeyCallStatus), KeyStatus).s
         ELSE Unknown
    ELSE ValueOf(body.json, KeyStatus).s

(* C5 amended: the status of every result from the cloud, and of every     *)
(* local result found by keyword matching, is one of the four; a local     *)
(* result read from a JSON status field is that field's string lower-cased,*)
(* whatever it is (ongoing, busy, the empty string).                       *)
C5_StatusValues ==
    (Done /\ outcome.kind = "return") =>
        IF isapi_result # <<>> /\ RecognizedField(LocalBody)
        THEN /\ Len(outcome.status) = Len(FieldRead(LocalBody))
             /\ \A i \in 1..Len(outcome.status) :
                   outcome.status[i] = LowerChar(FieldRead(LocalBody)[i])
        ELSE outcome.status \in FourStatuses

C5_Witness ==
    /\ Done /\ outcome.kind = "return" /\ isapi_result # <<>>
    /\ RecognizedField(LocalBody) /\ outcome.status = Ongoing

C5_WitnessCloud ==
    Done /\ outcome.kind = "return" /\ isapi_result = <<>> /\ outcome.status = CallInProgress

\* the local request ended in a transport error, HTTP 404, or another non-200 status
LocalFailed ==
    isapi_resps # <<>> /\ (isapi_resps[1].kind = "error" \/ isapi_resps[1].status_code # 200)

\* how the cloud step ends, from what it received
CloudEnd ==
    IF NoSession THEN NotLoggedIn
    ELSE IF cloud_resps[Len(cloud_resps)].kind = "ClientError" THEN Raised("ClientError", 0, "")
    ELSE IF Len(cloud_resps) = 1 THEN AfterFirst(cloud_resps[1])
    ELSE AfterRetry(cloud_resps[2])

(* C6: with local address and credential set, a local transport error, a   *)
(* 404 or any other non-200 response gives no local result and the cloud   *)
(* step follows, and the cloud step follows a local response only when it  *)
(* gave no result; the fetch then ends as the cloud step ends (or is       *)
(* cancelled by the poll's timeout while the cloud request is pending).    *)
C6_LocalFailureFallsThrough ==
    /\ (BothSet /\ LocalFailed) =>
          /\ isapi_result = <<>>
          /\ CloudEntered
          /\ Done => \/ outcome = Raised("TimeoutError", 0, "") /\ ~NoSession
                     \/ (NoSession \/ cloud_resps # <<>>) /\ outcome = CloudEnd
    /\ (BothSet /\ isapi_resps # <<>>) => (CloudEntered <=> isapi_result = <<>>)

C6_Witness ==
    /\ BothSet /\ LocalFailed /\ isapi_resps[1].status_code = 404
    /\ Done /\ outcome.kind = "return" /\ Len(CloudReqs) = 1

C6_WitnessTransport ==
    /\ BothSet /\ LocalFailed /\ isapi_resps[1].kind = "error"
    /\ Done /\ outcome.kind = "DeviceOfflineError"

(* C7: the fetch sends the local request exactly when the local address    *)
(* and the local credential are both non-empty, and sends it first; when   *)
(* either is empty every request of the fetch is a cloud request and the   *)
(* cloud step is entered at once.                                          *)
C7_LocalIffConfigured ==
    Called =>
        /\ BothSet <=> Len(LocalReqs) = 1
        /\ Len(LocalReqs) <= 1
        /\ BothSet => requests[1].to = "isapi"
        /\ ~BothSet => (Len(LocalReqs) = 0 /\ isapi_resps = <<>> /\ CloudEntered)

C7_Witness ==
    /\ local_ip # "" /\ local_password = ""
    /\ Done /\ outcome.kind = "return" /\ Len(LocalReqs) = 0 /\ Len(CloudReqs) = 1

C7_WitnessLocal ==
    BothSet /\ Done /\ Len(LocalReqs) = 1 /\ Len(CloudReqs) = 1

---------------------------------------------------------------------------
\* the lower-cased text is exactly this status
IsLowerOf(status, text) ==
    /\ Len(status) = Len(text)
    /\ \A i \in 1..Len(text) : status[i] = LowerChar(text[i])

\* the fetch returned this field's value lower-cased, with empty info, from the
\* local step alone
ReturnedField(value) ==
    /\ pc = "idle"
    /\ outcome.kind = "return"
    /\ value.t = "str" => IsLowerOf(outcome.status, value.s)
    /\ outcome.info = {}
    /\ Len(CloudReqs) = 0

(* C8 as stated: a local 200 response whose JSON body holds a status       *)
(* field, nested under CallStatus or flat, makes the fetch return that     *)
(* status lower-cased with empty info, without any cloud request.          *)
C8_AsStated ==
    (BothSet /\ Local200) =>
        /\ NestedStatus(LocalBody) =>
              ReturnedField(ValueOf(ValueOf(LocalBody.json, KeyCallStatus), KeyStatus))
        /\ (FlatStatus(LocalBody) /\ ~NestedStatus(LocalBody)) =>
              ReturnedField(ValueOf(LocalBody.json, KeyStatus))

\* the status field the code reads has a string value: CallStatus.status when
\* the body has a CallStatus member, the flat status otherwise
StringStatus(body) ==
    IF body.isJson /\ body.json.t = "obj" /\ HasKey(body.json, KeyCallStatus)
    THEN NestedStatus(body)
         /\ ValueOf(ValueOf(body.json, KeyCallStatus), KeyStatus).t = "str"
    ELSE FlatStatus(body) /\ ValueOf(body.json, KeyStatus).t = "str"

(* C8 amended: a local 200 response whose JSON body holds a string-valued  *)
(* status field (the one nested under CallStatus when the body has a       *)
(* CallStatus member, the flat one otherwise) makes the fetch return that  *)
(* string lower-cased with empty info, without any cloud request.          *)
C8_LocalJsonStatus ==
    (BothSet /\ Local200 /\ StringStatus(LocalBody)) =>
        /\ ReturnedField(JStr(FieldRead(LocalBody)))
        /\ isapi_result = <<Result(outcome.status, {})>>
        /\ Len(requests) = 1

C8_Witness ==
    /\ BothSet /\ Local200 /\ StringStatus(LocalBody) /\ FlatStatus(LocalBody)
    /\ FieldRead(LocalBody) = <<"R", "I", "N", "G", "I", "N", "G">>
    /\ Done /\ outcome = Returned(Result(Ringing, {}))

C8_WitnessNested ==
    /\ BothSet /\ Local200 /\ StringStatus(LocalBody) /\ NestedStatus(LocalBody)
    /\ Done /\ outcome = Returned(Result(Idle, {}))

(* C9 as stated: a local 200 response whose body is not JSON and contains  *)
(* "ringing" in any letter case gives the local result ringing with empty  *)
(* info.                                                                   *)
C9_AsStated ==
    (Local200 /\ ~LocalBody.isJson /\ HasKeyword(LocalBody, Ringing)) =>
        isapi_result = <<Result(Ringing, {})>>

(* C9 amended: a local 200 response whose body is not JSON, contains       *)
(* "ringing" in any letter case and does not contain "idle" in any letter  *)
(* case gives the local result ringing with empty info; with "idle" in it  *)
(* the result is idle.                                                     *)
C9_RingingKeyword ==
    (Local200 /\ ~LocalBody.isJson /\ HasKeyword(LocalBody, Ringing)) =>
        IF HasKeyword(LocalBody, Idle)
        THEN isapi_result = <<Result(Idle, {})>>
        ELSE isapi_result = <<Result(Ringing, {})>>

C9_Witness ==
    /\ Local200 /\ ~LocalBody.isJson /\ HasKeyword(LocalBody, Ringing)
    /\ ~Contains(LocalBody.raw, Ringing)
    /\ isapi_result = <<Result(Ringing, {})>>

\* the envelope's code and message, with the defaults of lines 158-159
CodeOf(resp) == IF resp.meta.code = <<>> THEN 0 ELSE resp.meta.code[1]
MessageOf(resp) == IF resp.meta.message = <<>> THEN "Unknown error" ELSE resp.meta.message[1]

\* the response that decides the cloud call: the first one, or the retry's
\* after a first 2009
FinalResponse == cloud_resps[Len(cloud_resps)]
HasFinal ==
    /\ cloud_resps # <<>>
    /\ FinalResponse.kind = "json"
    /\ Len(cloud_resps) = 1 => CodeOf(cloud_resps[1]) # CodeNetwork

(* C10: when the final cloud response (the first, or the retry's after a   *)
(* 2009) has a code that is not 200, not 2009, and not 2003 on the first   *)
(* response, the fetch fails with the generic HikConnectApiError carrying  *)
(* that response's code and message; a retry response with 2003 is such a  *)
(* case.                                                                   *)
C10_GenericError ==
    (HasFinal
     /\ CodeOf(FinalResponse) \notin {CodeOk, CodeNetwork}
     /\ ~(Len(cloud_resps) = 1 /\ CodeOf(FinalResponse) = CodeOffline)) =>
        /\ pc = "idle"
        /\ outcome.kind = "HikConnectApiError"
        /\ outcome.code = CodeOf(FinalResponse)
        /\ outcome.message = MessageOf(FinalResponse)

C10_Witness ==
    /\ Len(cloud_resps) = 2 /\ HasFinal /\ CodeOf(FinalResponse) = CodeOffline
    /\ FinalResponse.meta.message # <<>>
    /\ Done /\ outcome.kind = "HikConnectApiError" /\ outcome.code = CodeOffline

C10_WitnessFirst ==
    /\ Len(cloud_resps) = 1 /\ HasFinal /\ CodeOf(FinalResponse) = 500
    /\ Done /\ outcome.kind = "HikConnectApiError" /\ outcome.message = "Unknown error"

\* the cloud call was decided by a response with code 200 whose data is a JSON
\* object, as a dict or as the text of one
Accepted ==
    /\ HasFinal
    /\ CodeOf(FinalResponse) = CodeOk
    /\ \/ FinalResponse.data.t = "str" /\ FinalResponse.data.enc = "object"
       \/ FinalResponse.data.t = "obj" /\ FinalResponse.data.p # NoPayload

AcceptedPayload == FinalResponse.data.p

(* C11: for every cloud payload accepted with code 200 the returned status *)
(* is idle for callStatus 1, ringing for 2, call in progress for 3, and    *)
(* unknown for every other value and for a missing callStatus.             *)
C11_StatusMapping ==
    Accepted =>
        /\ pc = "idle"
        /\ outcome.kind = "return"
        /\ outcome.status =
              (IF AcceptedPayload.callStatus = <<1>> THEN Idle
               ELSE IF AcceptedPayload.callStatus = <<2>> THEN Ringing
               ELSE IF AcceptedPayload.callStatus = <<3>> THEN CallInProgress
               ELSE Unknown)

C11_Witness ==
    Accepted /\ AcceptedPayload.callStatus = <<3>> /\ Done /\ outcome.status = CallInProgress

C11_WitnessMissing ==
    Accepted /\ AcceptedPayload.callStatus = <<>> /\ Done /\ outcome.status = Unknown

C11_WitnessOther ==
    Accepted /\ AcceptedPayload.callStatus = <<MaxCallStatus>> /\ Done /\ outcome.status = Unknown

\* the rename table of the caller information, as the specification gives it
RenameTable ==
    { <<"buildingNo", "building_number">>, <<"floorNo", "floor_number">>,
      <<"zoneNo", "zone_number">>, <<"unitNo", "unit_number">>,
      <<"devNo", "device_number">>, <<"devType", "device_type">>,
      <<"lockNum", "lock_number">> }

AcceptedCallerInfo ==
    IF AcceptedPayload.callerInfo = <<>> THEN {} ELSE AcceptedPayload.callerInfo[1]

(* C12: the info mapping returned for an accepted payload holds, for each  *)
(* callerInfo key that is in the rename table, the renamed key with the    *)
(* input's value, and nothing else: no key of the table that the input     *)
(* lacks, no default, no key that is not in the table.                     *)
C12_InfoMapping ==
    Accepted =>
        /\ outcome.kind = "return"
        /\ \A kv \in AcceptedCallerInfo : \A r \in RenameTable :
              r[1] = kv[1] => <<r[2], kv[2]>> \in outcome.info
        /\ \A e \in outcome.info : \E kv \in AcceptedCallerInfo : \E r \in RenameTable :
              r[1] = kv[1] /\ e = <<r[2], kv[2]>>

C12_Witness ==
    /\ Accepted /\ Done
    /\ AcceptedCallerInfo = { <<"floorNo", 3>>, <<"nickname", 7>> }
    /\ outcome.info = { <<"floor_number", 3>> }

C12_WitnessAll ==
    Accepted /\ Done /\ Cardinality(AcceptedCallerInfo) = 7 /\ Cardinality(outcome.info) = 7

\* the cloud call was decided by a response with code 200 whose data is a
\* string that is not JSON
MalformedData ==
    /\ HasFinal
    /\ CodeOf(FinalResponse) = CodeOk
    /\ FinalResponse.data.t = "str"
    /\ FinalResponse.data.enc = "malformed"

NoData == Raised("HikConnectApiError", 0, "No data in response")

\* the last poll failed
Failed == outcome # NoOutcome /\ outcome.kind # "return"

(* C13: however a poll fails (network error, offline, generic error,       *)
(* timeout, transport error, any other exception), async_update returns    *)
(* without raising and the sensor is unavailable after it.                 *)
C13_FailedIsUnavailable ==
    /\ pc \in {"idle", "isapi", "cloud1", "cloud2"}
    /\ Failed => (pc = "idle" /\ ~available)

\* a payload that is not an object fails a poll of a sensor that was available
C13_Witness ==
    /\ Failed /\ outcome.kind = "AttributeError"
    /\ last_ok # NoStatus
    /\ pc = "idle" /\ ~available

C13_WitnessTimeout ==
    Failed /\ outcome.kind = "TimeoutError" /\ last_ok # NoStatus /\ ~available

(* C16: the network session a fetch opens is released before the fetch     *)
(* ends, on every exit path: no session is open between polls, and a       *)
(* pending fetch holds the one session of the step it is in.               *)
C16_SessionsReleased ==
    /\ pc = "idle" => open_sessions = {}
    /\ pc = "isapi" => open_sessions = {"httpx"}
    /\ pc \in {"cloud1", "cloud2"} => open_sessions = {"aiohttp"}

\* a fetch cancelled while the retry was pending
C16_Witness ==
    /\ Done /\ outcome.kind = "TimeoutError"
    /\ Len(CloudReqs) = 2
    /\ open_sessions = {}

C16_WitnessError ==
    Done /\ outcome.kind = "DeviceNetworkError" /\ open_sessions = {}

\* how far a fetch is
Rank(at) == CASE at = "isapi" -> 1 [] at = "cloud1" -> 2 [] at = "cloud2" -> 3 [] OTHER -> 4

(* C18: a fetch sends at most three requests, at most one local and then   *)
(* at most two to the cloud, the local one first; and every step of a      *)
(* pending fetch takes it further (to the next request or to its end) or   *)
(* lets time pass towards the timeout: there is no fourth request, no loop.*)
C18_AtMostThreeRequests ==
    [][ /\ Len(requests') <= 3
        /\ Len(SelectSeq(requests', IsLocal)) <= 1
        /\ Len(SelectSeq(requests', IsCloud)) <= 2
        /\ \A i \in 1..Len(requests') : IsLocal(requests'[i]) => i = 1
        /\ pc # "idle" => (Rank(pc') > Rank(pc) \/ elapsed' > elapsed) ]_vars

C18_Witness ==
    /\ Done /\ Len(requests) = 3
    /\ IsLocal(requests[1]) /\ IsCloud(requests[2]) /\ IsCloud(requests[3])

(* C14: a sensor has at most one fetch in flight: the timeout of a poll is  *)
(* strictly shorter than the polling interval, a fetch that has not ended  *)
(* within the timeout is cancelled, and so no fetch is still pending when  *)
(* the next scheduled poll starts.                                         *)
C14_OneFetchInFlight ==
    /\ WaitTimeout < SCAN_INTERVAL
    /\ in_flight = (IF pc = "idle" THEN 0 ELSE 1)
    /\ pc # "idle" => (elapsed <= WaitTimeout /\ elapsed < SCAN_INTERVAL)
    /\ pc = "idle" => elapsed = 0

\* a fetch cancelled at the timeout, while waiting for the cloud
C14_Witness ==
    /\ Done /\ outcome.kind = "TimeoutError"
    /\ Len(CloudReqs) >= 1
    /\ in_flight = 0

\* a fetch pending when the timeout has passed
C14_WitnessPending ==
    pc = "cloud1" /\ elapsed = WaitTimeout /\ in_flight = 1

\* the step ends a poll
EndsPoll == pc' = "idle"
TypedError(out) == out.kind \in ApiErrorKinds

\* the error the poll before the one that is ending failed with, if it failed
ErrorBefore ==
    IF pc # "idle" THEN prev_error
    ELSE IF outcome.kind = "return" THEN NoOutcome ELSE outcome

\* what the sensor remembers of a typed error
MarkerOf(out) == IF out.kind = "DeviceNetworkError" THEN Error2009 ELSE ErrStr(out)

(* C15 as stated: in a run of consecutive polls that fail with the same    *)
(* typed cloud error (kind, code and message), async_update logs for the   *)
(* first poll of the run and for no other.                                 *)
C15_AsStated ==
    [][ (EndsPoll /\ TypedError(outcome')) =>
            (logged' # <<>> <=> ErrorBefore # outcome') ]_vars

(* C15 amended: in such a run async_update logs nothing for any poll after *)
(* the first, and for the first it logs exactly when the marker the sensor *)
(* remembers differs from the error's marker ("2009" for a network error   *)
(* whatever its message, the error's text otherwise).                      *)
C15_LogsOncePerMarker ==
    [][ (EndsPoll /\ TypedError(outcome')) =>
            /\ ErrorBefore = outcome' => logged' = <<>>
            /\ logged' # <<>> <=> last_error # MarkerOf(outcome')
            /\ last_error' = MarkerOf(outcome') ]_vars

\* the second poll of a run has logged nothing
C15_Witness ==
    Done /\ TypedError(outcome) /\ prev_error = outcome /\ logged = <<>>

\* the first poll of a run has logged nothing: the marker was remembered
\* through a failure of another kind
C15_WitnessSilentFirst ==
    /\ Done /\ TypedError(outcome) /\ logged = <<>>
    /\ prev_error.kind \in {"TimeoutError", "ClientError"}

\* the events a poll fires when it ends with `out` and the most recent
\* successful poll before it had status `before`
EventsOf(out, before) ==
    IF out.kind = "return" /\ out.status # before
    THEN <<Event("call_status_changed", out.status, before)>>
         \o (IF out.status = Ringing
             THEN <<Event("doorbell_ringing", out.status, before)>>
             ELSE <<>>)
    ELSE <<>>

(* C20: call_status_changed is fired by exactly the successful polls whose *)
(* status differs from that of the most recent successful poll before (or  *)
(* that are the first successful poll), doorbell_ringing by exactly those  *)
(* of them whose new status is ringing; a failed poll fires nothing and    *)
(* keeps the remembered status, so that two ringing polls with only failed *)
(* polls between them ring once.                                           *)
C20_Events ==
    [][ EndsPoll =>
            /\ fired' = EventsOf(outcome', last_ok)
            /\ previous_status' = last_ok'
            /\ outcome'.kind # "return" => previous_status' = previous_status ]_vars

\* a ringing poll after a failed one that followed a ringing one
C20_Witness ==
    /\ Done /\ outcome.kind = "return" /\ outcome.status = Ringing
    /\ prev_error # NoOutcome
    /\ fired = <<>>

C20_WitnessRings ==
    /\ Done /\ outcome.kind = "return" /\ outcome.status = Ringing
    /\ Len(fired) = 2 /\ fired[2].name = "doorbell_ringing"
    /\ fired[2].previous_status = Idle

(* C21: a failed poll changes only the availability flag and possibly the  *)
(* last-error marker (for a typed cloud error only): the native value, the *)
(* extra state attributes and the remembered previous status stay as the   *)
(* last successful poll set them, which set them to its status, its info   *)
(* and its status.                                                         *)
C21_FailedPollFrame ==
    [][ EndsPoll =>
            IF outcome'.kind = "return"
            THEN /\ native_value' = outcome'.status
                 /\ attrs' = outcome'.info
                 /\ previous_status' = outcome'.status
            ELSE /\ native_value' = native_value
                 /\ attrs' = attrs
                 /\ previous_status' = previous_status
                 /\ ~available'
                 /\ last_error' # last_error => TypedError(outcome') ]_vars

\* a poll has failed after one that returned caller information
C21_Witness ==
    /\ Done /\ Failed /\ ~available
    /\ native_value = Ringing /\ previous_status = Ringing
    /\ attrs = { <<"floor_number", 3>> }

\* ... and has changed the marker
C21_WitnessMarker ==
    /\ Done /\ TypedError(outcome) /\ logged # <<>>
    /\ native_value = Ringing /\ attrs # {}

\* the poll before the one that is ending succeeded, or there was none
AfterSuccess == ErrorBefore = NoOutcome

\* what the claim's parts have in common: availability tells success, a
\* success clears the marker, a timeout or a transport failure keeps it
MarkerKept ==
    EndsPoll =>
        /\ available' <=> outcome'.kind = "return"
        /\ outcome'.kind = "return" => last_error' = NoError
        /\ outcome'.kind \in {"TimeoutError", "ClientError"} => last_error' = last_error

C22_WitnessTimeoutBetween ==
    /\ Done /\ outcome = OfflineError /\ logged = <<>>
    /\ prev_error.kind = "TimeoutError"

(* C17 as stated: a cloud response with code 200 whose data string is      *)
(* malformed ends the fetch like one without data, with the generic error  *)
(* of code 0 and message "No data in response".                            *)
C17_AsStated ==
    MalformedData => (pc = "idle" /\ outcome = NoData)

\* what the code does with it: the decoder's own exception leaves the fetch
C17_Observed ==
    MalformedData => (pc = "idle" /\ outcome = Raised("JSONDecodeError", 0, ""))

(* C19 as stated: whenever the sensor is available its native value is one *)
(* of the options it declares.                                             *)
C19_AsStated ==
    available => native_value \in SensorOptions

\* what holds instead: an available sensor shows the status of the last
\* successful poll, whatever that is
C19_Observed ==
    available => (native_value = last_ok /\ native_value # NoStatus)

====
